---- MODULE Spec2Model ----
(***************************************************************************)
(* Model of cryptgo's coin view: the four source adapters of pkg/api       *)
(* (GetFavouritePrices, GetCoinHistory, GetCoinAsset, GetLivePrice), the   *)
(* poll scheduler utils.LoopTick they run on, and the event multiplexer    *)
(* DisplayCoin of pkg/display/coin.                                        *)
(*                                                                         *)
(* pkg/utils (LoopTick, MinFloat64, MaxFloat64) is not part of the source  *)
(* tree at hand; those definitions follow the specification's sections    *)
(* 4.1 and 4.3.                                                            *)
(***************************************************************************)
EXTENDS Integers, Sequences, FiniteSets, TLC

----------------------------------------------------------------------------
(* Bounds *)

\* number of ticks the scheduler's ticker delivers in a behaviour
MaxTicks == 3
\* number of interval updates that can wait on intervalChannel (buffered
\* values and blocked senders, both served first-in first-out by Go)
MaxPending == 2
\* length of a decoded price series
MaxLen == 2
\* largest price of a series, in units of the smallest price difference
MaxPriceVal == 12
\* bits of the significand of the floating-point format the prices are
\* computed in (float64 has 53)
FloatPrecision == 3
\* number of entries of a CoinsMarket response
MaxEntries == 3
\* number of loop iterations of DisplayCoin in a behaviour
MaxIters == 3
\* bits of the significand of the floating-point format the gauge's
\* percentage is computed in (float64 has 53); seven bits hold every whole
\* percentage up to 100
PercentPrecision == 8

----------------------------------------------------------------------------
(* Adapters: state *)

VARIABLES
    adapter,          \* which adapter entry point this behaviour runs
    cancelled,        \* ctx.Done() is closed
    sched,            \* LoopTick: "wait" (in its select) or "done" (returned)
    ret,              \* the error LoopTick returned, "nil" while running
    ticks,            \* ticks delivered by the ticker so far
    cycles,           \* callback invocations started so far
    active,           \* callback invocations currently executing
    pc,               \* position of the callback invocation
    d,                \* deferred calls of the invocation still to run
    panicking,        \* the invocation is unwinding a panic
    finalErr,         \* the callback's finalErr variable
    recvReady,        \* the consumer is waiting to receive on the channel
    sends,            \* completed sends on dataChannel (price channel)
    sendsAfterCancel, \* those completed after ctx.Done() was closed
    intervalChannel,  \* values waiting on intervalChannel, oldest first
    i,                \* GetCoinHistory's current interval
    pendingAtTick,    \* intervalChannel as it was when the cycle started
    urls,             \* per cycle, the interval its history request was
                      \* made with, "none" while the cycle has made none
    faulted,          \* a read of GetLivePrice returned an error or panicked
    reported          \* the error the callback sent on errChan, "nil" if none

schedVars == <<sched, ret, ticks, cycles, active>>
cbVars    == <<pc, d, panicking, finalErr>>
chanVars  == <<recvReady, sends, sendsAfterCancel>>
histVars  == <<intervalChannel, i, pendingAtTick, urls>>
avars     == <<adapter, cancelled, schedVars, cbVars, chanVars, histVars,
               faulted, reported>>

----------------------------------------------------------------------------
(* Result aggregation of GetCoinHistory and GetFavouritePrices: state *)

VARIABLES
    series,           \* the decoded price series of one history response
    coinData,         \* the CoinData built from it, of Type "none" before
    response,         \* the entries of one CoinsMarket response, in order
    snapshot          \* the CoinData built from it, of Type "none" before

hvars == <<series, coinData>>
fvars == <<response, snapshot>>

----------------------------------------------------------------------------
(* DisplayCoin: state *)

VARIABLES
    ctxDone,          \* the ctx of DisplayCoin is cancelled
    eventsReady,      \* some of tick, uiEvents, priceChannel, dataChannel
                      \* has an event ready
    result,           \* the error DisplayCoin returned, "running" before
    iters,            \* iterations of the loop counted so far
    afterCancel,      \* 1 once an event was applied after ctx was cancelled
    lastCase,         \* the case of the select the latest iteration took
    received,         \* the event that case received
    again,            \* it is the event the iteration before received too
    rendered,         \* the widgets rendered by the latest iteration
    selectCurrency,   \* the currency overlay is active
    currency,         \* label of the active currency
    currencyVal,      \* its conversion factor
    previousKey,
    currencyWidget,   \* [Rows, SelectedRow] of the currency table
    favSortIdx,
    favSortAsc,
    myPage            \* the widgets of the coin page

dvars == <<ctxDone, eventsReady, result, iters, afterCancel, lastCase,
           received, again, rendered,
           selectCurrency, currency, currencyVal, previousKey,
           currencyWidget, favSortIdx, favSortAsc, myPage>>

nonAdapterVars == <<hvars, fvars, dvars>>
nonDisplayVars == <<hvars, fvars>>

----------------------------------------------------------------------------

Adapters == {"GetFavouritePrices", "GetCoinHistory", "GetCoinAsset", "GetLivePrice"}

Intervals == {"7 days", "30 days"}

\* the errors a callback can meet in its request / read / decode
RequestErrors == {"request failed", "decode failed"}

\* context.Canceled, the value of ctx.Err() once ctx.Done() is closed
Canceled == "context canceled"

\* first statement of the callback after `var finalErr error` and its defers
FirstStep(k) ==
    CASE k = "GetCoinHistory" -> "drain"
      [] k = "GetLivePrice"   -> "read"
      [] OTHER                -> "request"

\* the callback's defer statements in registration order; Go runs them
\* last registered first
Defers(k) ==
    IF k = "GetLivePrice" THEN <<"recover", "report">> ELSE <<"report">>

----------------------------------------------------------------------------
(* DisplayCoin: values and initial state *)

\* a numeric string and a string strconv.ParseFloat rejects (it then
\* returns 0 and an error)
Num(v) == [ok |-> TRUE, val |-> v]
Bad    == [ok |-> FALSE, val |-> 0]

\* fmt.Sprintf("%.2f", x / v): hundredths of the quotient; a division by
\* zero is no fault in float64 and prints NaN or an infinity
Quot(x, v) ==
    IF v # 0 THEN [hundredths |-> (x * 100) \div v]
    ELSE IF x = 0 THEN [special |-> "NaN"]
    ELSE IF x > 0 THEN [special |-> "+Inf"]
    ELSE [special |-> "-Inf"]

\* fmt.Sprintf("%.2f %s", x / v, cur)
Label(x, v, cur) == [value |-> Quot(x, v), currency |-> cur]
NoLabel == [empty |-> TRUE]

UP_ARROW   == "up"
DOWN_ARROW == "down"

\* favHeader, built once from the initial currency
favHeader ==
    << [text |-> "Symbol", arrow |-> ""],
       [text |-> "Price (USD $)", arrow |-> ""] >>

\* fmt.Sprintf("Price (%s)", currency)
PriceHeader(cur) ==
    [text |-> IF cur = "USD $" THEN "Price (USD $)" ELSE "Price (EUR E)",
     arrow |-> ""]

\* favHeader[idx] + " " + arrow
WithArrow(h, arrow) == [h EXCEPT !.arrow = arrow]

\* the rows of the currency table: name and symbol, and the rate string
USD == [name |-> "USD $", rate |-> Num(1)]
EUR == [name |-> "EUR E", rate |-> Num(2)]
XXX == [name |-> "XXX X", rate |-> Bad]

\* currencyWidget.UpdateRows(): the popular currencies
PopularRows == <<USD, EUR>>
\* currencyWidget.UpdateAll(): every currency
AllRows == <<USD, EUR, XXX>>

NewCurrencyPage == [Rows |-> <<>>, SelectedRow |-> 0]

NewCoinPage ==
    [FavouritesTable |-> [Header |-> favHeader, Rows |-> <<>>,
                          SelectedRow |-> 0, ShowCursor |-> FALSE],
     ValueGraph      |-> [Data |-> <<>>, Max |-> NoLabel, Min |-> NoLabel,
                          Value |-> NoLabel],
     DetailsTable    |-> [Header |-> <<>>, Rows |-> <<>>],
     VolumeGauge     |-> [Percent |-> 0],
     SupplyChart     |-> [Data |-> <<>>, Title |-> ""],
     PriceBox        |-> [Price |-> NoLabel, Change |-> ""]]

\* an updateUI that renders the grid whatever the mode
updateUIGridAlways(overlay) == <<"Grid">>

\* updateUI(): ui.Clear(), then the overlay or the grid is rendered
updateUI(overlay) ==
    IF overlay THEN <<"currencyWidget">> ELSE <<"Grid">>

\* the state DisplayCoin enters its loop with
InitDisplayState ==
    /\ ctxDone = FALSE
    /\ eventsReady = FALSE
    /\ result = "running"
    /\ iters = 0
    /\ afterCancel = 0
    /\ lastCase = "none"
    /\ received = [none |-> TRUE]
    /\ again = FALSE
    /\ rendered = updateUI(FALSE)
    /\ selectCurrency = FALSE
    /\ currency = "USD $"
    /\ currencyVal = 1
    /\ previousKey = ""
    /\ currencyWidget = NewCurrencyPage
    /\ favSortIdx = -1
    /\ favSortAsc = FALSE
    /\ myPage = NewCoinPage

NoCoinData == [Type |-> "none"]

AdaptersNotStarted ==
    /\ cancelled = FALSE
    /\ sched = "wait"
    /\ ret = "nil"
    /\ ticks = 0
    /\ cycles = 0
    /\ active = 0
    /\ pc = "idle"
    /\ d = 0
    /\ panicking = FALSE
    /\ finalErr = "nil"
    /\ recvReady = FALSE
    /\ sends = 0
    /\ sendsAfterCancel = 0
    /\ intervalChannel = <<>>
    /\ i = "d1"
    /\ pendingAtTick = <<>>
    /\ urls = <<>>
    /\ faulted = FALSE
    /\ reported = "nil"

InitAdapters ==
    /\ adapter \in Adapters
    /\ AdaptersNotStarted
    /\ series = <<>>
    /\ coinData = NoCoinData
    /\ response = <<>>
    /\ snapshot = NoCoinData
    /\ InitDisplayState

----------------------------------------------------------------------------
(* Environment of an adapter *)

\* the owner of the view cancels the context
Cancel ==
    /\ ~cancelled
    /\ cancelled' = TRUE
    /\ UNCHANGED <<adapter, schedVars, cbVars, chanVars, histVars, faulted,
                   reported, nonAdapterVars>>

\* the consumer reaches its receive on the channel
ConsumerReady ==
    /\ ~recvReady
    /\ recvReady' = TRUE
    /\ UNCHANGED <<adapter, cancelled, schedVars, cbVars, sends,
                   sendsAfterCancel, histVars, faulted, reported,
                   nonAdapterVars>>

\* the consumer leaves its receive without taking a value (another case of
\* its select fired, or it returned)
ConsumerLeave ==
    /\ recvReady
    /\ recvReady' = FALSE
    /\ UNCHANGED <<adapter, cancelled, schedVars, cbVars, sends,
                   sendsAfterCancel, histVars, faulted, reported,
                   nonAdapterVars>>

\* somebody submits an interval update on intervalChannel
SubmitInterval ==
    /\ adapter = "GetCoinHistory"
    /\ Len(intervalChannel) < MaxPending
    /\ \E v \in Intervals : intervalChannel' = Append(intervalChannel, v)
    /\ UNCHANGED <<adapter, cancelled, schedVars, cbVars, chanVars, i,
                   pendingAtTick, urls, faulted, reported, nonAdapterVars>>

----------------------------------------------------------------------------
(* utils.LoopTick: the poll scheduler *)

\* a scheduler that starts the callback on every tick, whether or not the
\* invocation of an earlier tick has returned
LoopTickTickerSpawn ==
    /\ cycles' = cycles + 1
    /\ active' = active + 1
    /\ pc' = FirstStep(adapter)
    /\ finalErr' = "nil"
    /\ pendingAtTick' = intervalChannel
    /\ urls' = Append(urls, "none")

\* case <-ticker.C: the callback is invoked, unless the invocation of an
\* earlier tick is still executing: then the tick is skipped
LoopTickTicker ==
    IF active = 0
    THEN /\ cycles' = cycles + 1
         /\ active' = 1
         /\ pc' = FirstStep(adapter)
         /\ finalErr' = "nil"
         /\ pendingAtTick' = intervalChannel
         /\ urls' = Append(urls, "none")
    ELSE UNCHANGED <<cycles, active, pc, finalErr, pendingAtTick, urls>>

Tick ==
    /\ sched = "wait"
    /\ ~cancelled
    /\ ticks < MaxTicks
    /\ ticks' = ticks + 1
    /\ LoopTickTicker
    /\ UNCHANGED <<adapter, cancelled, sched, ret, d, panicking, chanVars,
                   intervalChannel, i, faulted, reported, nonAdapterVars>>

\* case <-ctx.Done(): LoopTick returns the cancellation's reason
LoopTickDone ==
    /\ sched = "wait"
    /\ cancelled
    /\ sched' = "done"
    /\ ret' = Canceled
    /\ UNCHANGED <<adapter, cancelled, ticks, cycles, active, cbVars,
                   chanVars, histVars, faulted, reported, nonAdapterVars>>

\* case err := <-errChan: LoopTick stops and returns the error it received
LoopTickErr(err) ==
    /\ sched = "wait"
    /\ sched' = "done"
    /\ ret' = err

----------------------------------------------------------------------------
(* The adapters' callbacks *)

\* the body of the callback is left (return, end of function or panic):
\* its deferred calls run, last registered first
RunDefers ==
    /\ pc' = "defer"
    /\ d' = Len(Defers(adapter))

\* a deferred call finished: the next one runs, or the invocation returns
DeferDone ==
    /\ d' = d - 1
    /\ IF d = 1
       THEN pc' = "idle" /\ active' = active - 1
       ELSE pc' = pc /\ active' = active

\* GetCoinHistory: select { <-ctx.Done() | <-intervalChannel | default }
DrainInterval ==
    \/ /\ cancelled
       /\ finalErr' = Canceled
       /\ RunDefers
       /\ UNCHANGED <<intervalChannel, i>>
    \/ /\ intervalChannel # <<>>
       /\ i' = Head(intervalChannel)
       /\ intervalChannel' = Tail(intervalChannel)
       /\ pc' = "request"
       /\ UNCHANGED <<finalErr, d>>
    \/ /\ ~cancelled
       /\ intervalChannel = <<>>
       /\ pc' = "request"
       /\ UNCHANGED <<finalErr, d, intervalChannel, i>>

Drain ==
    /\ adapter = "GetCoinHistory"
    /\ pc = "drain"
    /\ DrainInterval
    /\ UNCHANGED <<adapter, cancelled, schedVars, panicking, chanVars,
                   pendingAtTick, urls, faulted, reported, nonAdapterVars>>

\* the request of GetFavouritePrices, GetCoinHistory and GetCoinAsset with
\* the decoding of its response: it fails, or the callback goes on to send
Fetch ==
    \/ /\ pc' = "send"
       /\ UNCHANGED <<finalErr, d>>
    \/ /\ \E err \in RequestErrors : finalErr' = err
       /\ RunDefers

Request ==
    /\ adapter # "GetLivePrice"
    /\ pc = "request"
    /\ Fetch
    /\ urls' = IF adapter = "GetCoinHistory"
                THEN [urls EXCEPT ![cycles] = i]
                ELSE urls
    /\ UNCHANGED <<adapter, cancelled, schedVars, panicking, chanVars,
                   intervalChannel, i, pendingAtTick, faulted, reported,
                   nonAdapterVars>>

\* GetLivePrice: err = c.ReadJSON(&msg) returns nil, returns an error, or
\* panics (a read on a failed connection)
ReadJSON ==
    \/ /\ pc' = "send"
       /\ UNCHANGED <<finalErr, d, panicking, faulted>>
    \/ /\ finalErr' = "read failed"
       /\ faulted' = TRUE
       /\ RunDefers
       /\ UNCHANGED panicking
    \/ /\ panicking' = TRUE
       /\ faulted' = TRUE
       /\ RunDefers
       /\ UNCHANGED finalErr

Read ==
    /\ adapter = "GetLivePrice"
    /\ pc = "read"
    /\ ReadJSON
    /\ UNCHANGED <<adapter, cancelled, schedVars, chanVars, histVars,
                   reported, nonAdapterVars>>

\* a callback that polls ctx.Done() and then sends unconditionally
SendSelectSendsAnyway ==
    /\ recvReady
    /\ recvReady' = FALSE
    /\ sends' = sends + 1
    /\ sendsAfterCancel' = sendsAfterCancel + (IF cancelled THEN 1 ELSE 0)
    /\ finalErr' = IF cancelled THEN Canceled ELSE finalErr

\* select { case <-ctx.Done(): finalErr = ctx.Err(); return
\*          case dataChannel <- coinData: }
\* Go chooses among the cases that can proceed
SendSelect ==
    \/ /\ cancelled
       /\ finalErr' = Canceled
       /\ UNCHANGED chanVars
    \/ /\ recvReady
       /\ recvReady' = FALSE
       /\ sends' = sends + 1
       /\ sendsAfterCancel' = sendsAfterCancel + (IF cancelled THEN 1 ELSE 0)
       /\ UNCHANGED finalErr

Send ==
    /\ pc = "send"
    /\ SendSelect
    /\ RunDefers
    /\ UNCHANGED <<adapter, cancelled, schedVars, panicking, histVars,
                   faulted, reported, nonAdapterVars>>

\* a deferred report that sends ctx.Err() whatever the cycle's error was
ReportCtxErr ==
    IF finalErr # "nil"
    THEN LoopTickErr(Canceled) /\ reported' = Canceled
    ELSE UNCHANGED <<sched, ret, reported>>

\* defer func() { if finalErr != nil { errChan <- finalErr } }()
\* the send is a plain send: it completes when LoopTick receives
ReportFinalErr ==
    IF finalErr # "nil"
    THEN LoopTickErr(finalErr) /\ reported' = finalErr
    ELSE UNCHANGED <<sched, ret, reported>>

DeferReport ==
    /\ pc = "defer"
    /\ d > 0
    /\ Defers(adapter)[d] = "report"
    /\ ReportFinalErr
    /\ DeferDone
    /\ UNCHANGED <<adapter, cancelled, ticks, cycles, panicking, finalErr,
                   chanVars, histVars, faulted, nonAdapterVars>>

\* defer func() { if e := recover(); e != nil { finalErr = ... } }()
Recover ==
    IF panicking
    THEN finalErr' = "socket read error" /\ panicking' = FALSE
    ELSE UNCHANGED <<finalErr, panicking>>

DeferRecover ==
    /\ pc = "defer"
    /\ d > 0
    /\ Defers(adapter)[d] = "recover"
    /\ Recover
    /\ DeferDone
    /\ UNCHANGED <<adapter, cancelled, sched, ret, ticks, cycles, chanVars,
                   histVars, faulted, reported, nonAdapterVars>>

CallbackStep == Drain \/ Request \/ Read \/ Send \/ DeferReport \/ DeferRecover

Next ==
    \/ Cancel
    \/ ConsumerReady
    \/ ConsumerLeave
    \/ SubmitInterval
    \/ Tick
    \/ LoopTickDone
    \/ Drain
    \/ Request
    \/ Read
    \/ Send
    \/ DeferReport
    \/ DeferRecover

vars == <<avars, nonAdapterVars>>

Init == InitAdapters

Spec == Init /\ [][Next]_vars

----------------------------------------------------------------------------
(* Floating-point arithmetic on prices.  A price is a natural number of
   units; the representable ones have a significand of FloatPrecision bits
   and every operation rounds its exact result to the nearest representable
   value, ties to the even significand, as float64 does. *)

RECURSIVE Pow2(_)
Pow2(n) == IF n = 0 THEN 1 ELSE 2 * Pow2(n - 1)

\* the spacing of the representable values around x
RECURSIVE UlpFrom(_, _)
UlpFrom(x, q) ==
    IF x < q * Pow2(FloatPrecision) THEN q ELSE UlpFrom(x, 2 * q)

Ulp(x) == UlpFrom(x, 1)

RoundToEven(x) ==
    LET q  == Ulp(x)
        lo == (x \div q) * q
        hi == lo + q
    IN  IF x = lo THEN x
        ELSE IF x - lo < hi - x THEN lo
        ELSE IF x - lo > hi - x THEN hi
        ELSE IF (lo \div q) % 2 = 0 THEN lo ELSE hi

Representable(x) == RoundToEven(x) = x

FSub(a, b) == RoundToEven(a - b)
FAdd(a, b) == RoundToEven(a + b)

Prices == {x \in 0..MaxPriceVal : Representable(x)}

\* a floating-point value num * 2^(-exp) of a format with p significand
\* bits: the quotient n / dn of two naturals, rounded to nearest, ties to
\* even
RECURSIVE UlpAt(_, _, _)
UlpAt(x, q, p) == IF x < q * Pow2(p) THEN q ELSE UlpAt(x, 2 * q, p)

RECURSIVE ScaleFor(_, _, _, _)
ScaleFor(n, dn, p, k) ==
    IF n * Pow2(k) >= dn * Pow2(p - 1) THEN k ELSE ScaleFor(n, dn, p, k + 1)

RoundRatio(n, dn, p) ==
    IF n = 0 THEN [num |-> 0, exp |-> 0]
    ELSE LET k   == ScaleFor(n, dn, p, 0)
             x   == n * Pow2(k)
             u   == UlpAt(x \div dn, 1, p)
             lo  == (x \div (dn * u)) * u
             rem == x - lo * dn
             up  == \/ 2 * rem > u * dn
                    \/ 2 * rem = u * dn /\ (lo \div u) % 2 = 1
         IN  [num |-> IF up THEN lo + u ELSE lo, exp |-> k]

\* vol / mCap, and the product of a floating-point value and a whole number
FDiv(a, b) == RoundRatio(a, b, PercentPrecision)
FMul(x, c) == RoundRatio(x.num * c, Pow2(x.exp), PercentPrecision)

\* int(x): the conversion truncates
IntOf(x) == x.num \div Pow2(x.exp)

\* int((vol / mCap) * 100)
Percent(vol, mCap) == IntOf(FMul(FDiv(vol, mCap), 100))

----------------------------------------------------------------------------
(* GetCoinHistory: aggregation of the decoded series *)

RECURSIVE MinFloat64(_)
MinFloat64(a) ==
    IF Len(a) = 1 THEN a[1]
    ELSE LET m == MinFloat64(Tail(a)) IN IF a[1] < m THEN a[1] ELSE m

RECURSIVE MaxFloat64(_)
MaxFloat64(a) ==
    IF Len(a) = 1 THEN a[1]
    ELSE LET m == MaxFloat64(Tail(a)) IN IF a[1] > m THEN a[1] ELSE m

\* the aggregation without the loop that subtracts the minimum
HistoryCoinDataNoBaseline(price) ==
    [Type         |-> "HISTORY",
     PriceHistory |-> price,
     MinPrice     |-> MinFloat64(price),
     MaxPrice     |-> MaxFloat64(price)]

\* min, max, `price[i] = val - min` for every sample, and the CoinData
HistoryCoinData(price) ==
    LET min == MinFloat64(price)
        max == MaxFloat64(price)
    IN  [Type         |-> "HISTORY",
         PriceHistory |-> [k \in 1..Len(price) |-> FSub(price[k], min)],
         MinPrice     |-> min,
         MaxPrice     |-> max]

AllSeries == UNION {[1..n -> Prices] : n \in 1..MaxLen}

InitHistory ==
    /\ adapter = "GetCoinHistory"
    /\ AdaptersNotStarted
    /\ series \in AllSeries
    /\ coinData = NoCoinData
    /\ response = <<>>
    /\ snapshot = NoCoinData
    /\ InitDisplayState

AggregateHistory ==
    /\ coinData = NoCoinData
    /\ coinData' = HistoryCoinData(series)
    /\ UNCHANGED <<avars, series, fvars, dvars>>

NextHistory == AggregateHistory

SpecHistory == InitHistory /\ [][NextHistory]_vars

----------------------------------------------------------------------------
(* GetFavouritePrices: aggregation of the batch response *)

Symbols == {"btc", "Btc", "eth"}

\* strings.ToUpper on the symbols above
ToUpper(sym) ==
    CASE sym \in {"btc", "Btc", "BTC"} -> "BTC"
      [] sym \in {"eth", "ETH"}        -> "ETH"

CurrentPrices == {1, 2}

Entries == [Symbol : Symbols, CurrentPrice : CurrentPrices]

\* for _, val := range *coinDataPointer {
\*     favouriteData[strings.ToUpper(val.Symbol)] = val.CurrentPrice }
RECURSIVE RangeFavourites(_, _)
RangeFavourites(favouriteData, rest) ==
    IF rest = <<>> THEN favouriteData
    ELSE RangeFavourites(
            (ToUpper(Head(rest).Symbol) :> Head(rest).CurrentPrice)
                @@ favouriteData,
            Tail(rest))

\* a loop that keeps the value a symbol already has
RECURSIVE RangeFavouritesKeepFirst(_, _)
RangeFavouritesKeepFirst(favouriteData, rest) ==
    IF rest = <<>> THEN favouriteData
    ELSE RangeFavouritesKeepFirst(
            favouriteData
                @@ (ToUpper(Head(rest).Symbol) :> Head(rest).CurrentPrice),
            Tail(rest))

FavouritesCoinDataKeepFirst(resp) ==
    [Type |-> "FAVOURITES", Favourites |-> RangeFavouritesKeepFirst(<<>>, resp)]

FavouritesCoinData(resp) ==
    [Type |-> "FAVOURITES", Favourites |-> RangeFavourites(<<>>, resp)]

AllResponses == UNION {[1..n -> Entries] : n \in 0..MaxEntries}

InitFavourites ==
    /\ adapter = "GetFavouritePrices"
    /\ AdaptersNotStarted
    /\ series = <<>>
    /\ coinData = NoCoinData
    /\ response \in AllResponses
    /\ snapshot = NoCoinData
    /\ InitDisplayState

AggregateFavourites ==
    /\ snapshot = NoCoinData
    /\ snapshot' = FavouritesCoinData(response)
    /\ UNCHANGED <<avars, hvars, response, dvars>>

NextFavourites == AggregateFavourites

SpecFavourites == InitFavourites /\ [][NextFavourites]_vars

----------------------------------------------------------------------------
(* Collaborators of DisplayCoin: table widgets and pkg/utils *)

\* the scrolling methods of a table widget [Rows, SelectedRow, ...];
\* SelectedRow counts from 0 and a page holds the whole table
ScrollUp(t) ==
    [t EXCEPT !.SelectedRow = IF @ > 0 THEN @ - 1 ELSE 0]
ScrollDown(t) ==
    [t EXCEPT !.SelectedRow = IF @ + 1 < Len(t.Rows) THEN @ + 1 ELSE @]
ScrollTop(t) ==
    [t EXCEPT !.SelectedRow = 0]
ScrollBottom(t) ==
    [t EXCEPT !.SelectedRow = IF Len(t.Rows) > 0 THEN Len(t.Rows) - 1 ELSE 0]

\* the scrolling a navigation key causes; gg needs previousKey
Scroll(t, key, prev) ==
    CASE key \in {"j", "<C-d>"}           -> ScrollDown(t)
      [] key \in {"k", "<C-u>"}           -> ScrollUp(t)
      [] key = "<C-f>"                    -> ScrollBottom(t)
      [] key = "<C-b>"                    -> ScrollTop(t)
      [] key = "g" /\ prev = "g"          -> ScrollTop(t)
      [] key = "<Home>"                   -> ScrollTop(t)
      [] key = "G"                        -> ScrollBottom(t)
      [] OTHER                            -> t

SymbolRank(sym) == IF sym = "BTC" THEN 1 ELSE 2

\* the order utils.SortData sorts favourites rows <<symbol, price>> into:
\* column 0 by symbol, column 1 by the number the price string stands for
Before(idx, asc, a, b) ==
    LET lt(x, y) ==
            IF idx = 0 THEN SymbolRank(x[1]) < SymbolRank(y[1])
            ELSE /\ "hundredths" \in DOMAIN x[2]
                 /\ IF "hundredths" \in DOMAIN y[2]
                    THEN x[2].hundredths < y[2].hundredths
                    ELSE y[2].special = "+Inf"
    IN  IF asc THEN lt(a, b) ELSE lt(b, a)

Insert(idx, asc, sorted, x) ==
    LET later == {k \in 1..Len(sorted) : Before(idx, asc, x, sorted[k])}
        at    == IF later = {} THEN Len(sorted) + 1
                 ELSE CHOOSE k \in later : \A j \in later : k <= j
    IN  SubSeq(sorted, 1, at - 1) \o <<x>> \o SubSeq(sorted, at, Len(sorted))

RECURSIVE SortFrom(_, _, _, _)
SortFrom(idx, asc, sorted, rest) ==
    IF rest = <<>> THEN sorted
    ELSE SortFrom(idx, asc, Insert(idx, asc, sorted, Head(rest)), Tail(rest))

\* utils.SortData(rows, idx, asc, "FAVOURITES"), a stable sort
SortData(rows, idx, asc) == SortFrom(idx, asc, <<>>, rows)

Kilo == 1000

\* utils.RoundValues(num1, num2): the divisor and the unit that fit the
\* larger of the two
RoundValues(num1, num2) ==
    IF num1 < Kilo /\ num2 < Kilo
    THEN [div |-> 1, units |-> ""]
    ELSE [div |-> Kilo, units |-> "K"]

----------------------------------------------------------------------------
(* DisplayCoin: inputs *)

\* one key per case label of the two switches, and a key of no case
Keys == {"<Escape>", "q", "<C-c>", "<Resize>", "c", "C", "j", "k", "<C-d>",
         "<C-u>", "<C-f>", "<C-b>", "g", "<Home>", "G", "<Enter>", "1", "2",
         "<F1>", "<F2>", "x"}

\* strings received on priceChannel
PriceUpdates == {Num(4), Bad}

\* Favourites maps of Snapshot results
SnapshotPrices == {2, 4}
Snapshots ==
    UNION {[syms -> SnapshotPrices] : syms \in SUBSET {"BTC", "ETH"}}

\* the orders `range data.Favourites` can visit a map in
RangeOrders(m) ==
    {o \in [1..Cardinality(DOMAIN m) -> DOMAIN m] :
        \A j, k \in DOMAIN o : j # k => o[j] # o[k]}

\* History results, as GetCoinHistory builds them
Histories == {HistoryCoinData(<<2, 4>>), HistoryCoinData(<<8, 2, 6>>)}

Asset(mCap, vol, change) ==
    [Name |-> "Bitcoin", Symbol |-> "BTC", Rank |-> "1",
     Explorer |-> "https://blockchain.info/",
     MarketCapUsd |-> mCap, Vwap24Hr |-> change, PriceUsd |-> vol,
     VolumeUsd24Hr |-> vol, Supply |-> vol, MaxSupply |-> mCap,
     ChangePercent24Hr |-> change]

\* Detail results: numeric strings, among them a zero market cap, a volume
\* above the market cap, a volume of 29 hundredths of the market cap, a
\* negative change, and strings that do not parse
Assets ==
    {Asset(Num(1000), Num(500), Num(3)),
     Asset(Num(100), Num(29), Num(3)),
     Asset(Num(0), Num(500), Num(-3)),
     Asset(Num(1000), Num(2000), Bad),
     Asset(Bad, Bad, Num(3)),
     Asset(Num(1000), Bad, Num(-3))}

----------------------------------------------------------------------------
(* DisplayCoin: the loop *)

\* what every iteration that applies an event does to the loop's bookkeeping
Applied(case) ==
    /\ result = "running"
    /\ lastCase' = case
    /\ eventsReady
    /\ iters < MaxIters
    /\ iters' = iters + 1
    /\ afterCancel' = IF ctxDone THEN 1 ELSE afterCancel
    /\ UNCHANGED <<ctxDone, eventsReady, avars, nonDisplayVars>>

\* a ctx.Done() case that only leaves the select (break), not the loop
CtxDoneBreak ==
    /\ result' = result
    /\ rendered' = rendered

\* case <-ctx.Done(): return ctx.Err()
CtxDoneReturn ==
    /\ result' = Canceled
    /\ rendered' = <<>>

CtxDoneCase ==
    /\ result = "running"
    /\ ctxDone
    /\ iters' = iters + 1
    /\ lastCase' = "ctx.Done"
    /\ received' = [done |-> TRUE]
    /\ again' = FALSE
    /\ CtxDoneReturn
    /\ UNCHANGED <<ctxDone, eventsReady, afterCancel, selectCurrency,
                   currency, currencyVal, previousKey, currencyWidget,
                   favSortIdx, favSortAsc, myPage, avars, nonDisplayVars>>

\* a first switch whose <Escape> case returns in the overlay too
QuitsInOverlayToo(key) == key \in {"<Escape>", "q", "<C-c>"}

\* the first switch returns: <Escape> outside the overlay, q, <C-c>
Quits(key) ==
    \/ key = "<Escape>" /\ ~selectCurrency
    \/ key \in {"q", "<C-c>"}

QuitError(key) ==
    IF key = "<Escape>" THEN "UI Closed" ELSE "coin UI Closed"

\* case "<Enter>" of the overlay: the selected row becomes the currency
CommitCurrency(cw) ==
    IF cw.SelectedRow < Len(cw.Rows)
    THEN LET row == cw.Rows[cw.SelectedRow + 1]
         IN  IF row.rate.ok
             THEN currency' = row.name /\ currencyVal' = row.rate.val
             ELSE currency' = "USD $" /\ currencyVal' = 0
    ELSE UNCHANGED <<currency, currencyVal>>

\* an overlay switch whose <Escape> case commits the selected row as
\* <Enter> does
OverlayKeyEscapeCommits(key, cw, drawn) ==
    /\ currencyWidget' = Scroll(cw, key, previousKey)
    /\ IF key \in {"<Enter>", "<Escape>"}
       THEN CommitCurrency(cw)
       ELSE UNCHANGED <<currency, currencyVal>>
    /\ selectCurrency' = (key \notin {"<Enter>", "<Escape>"})
    /\ rendered' = IF selectCurrency' THEN drawn \o <<"currencyWidget">>
                   ELSE drawn
    /\ UNCHANGED <<previousKey, favSortIdx, favSortAsc, myPage>>

\* an overlay branch that ends with the primary branch's ui.Render(Grid)
OverlayKeyRendersGrid(key, cw, drawn) ==
    /\ currencyWidget' = Scroll(cw, key, previousKey)
    /\ IF key = "<Enter>"
       THEN CommitCurrency(cw)
       ELSE UNCHANGED <<currency, currencyVal>>
    /\ selectCurrency' = (key \notin {"<Enter>", "<Escape>"})
    /\ rendered' = IF selectCurrency' THEN drawn \o <<"Grid">>
                   ELSE drawn
    /\ UNCHANGED <<previousKey, favSortIdx, favSortAsc, myPage>>

\* if selectCurrency { switch e.ID {...}; if selectCurrency { Render } }
OverlayKey(key, cw, drawn) ==
    /\ currencyWidget' = Scroll(cw, key, previousKey)
    /\ IF key = "<Enter>"
       THEN CommitCurrency(cw)
       ELSE UNCHANGED <<currency, currencyVal>>
    /\ selectCurrency' = (key \notin {"<Enter>", "<Escape>"})
    /\ rendered' = IF selectCurrency' THEN drawn \o <<"currencyWidget">>
                   ELSE drawn
    /\ UNCHANGED <<previousKey, favSortIdx, favSortAsc, myPage>>

\* case "1", "2" and case "<F1>", "<F2>": the sort column and direction
SortKeys == {"1", "2", "<F1>", "<F2>"}
SortIdx(key) == IF key \in {"1", "<F1>"} THEN 0 ELSE 1
SortAsc(key) == key \in {"1", "2"}

SortedTable(t, key) ==
    LET idx   == SortIdx(key)
        arrow == IF SortAsc(key) THEN UP_ARROW ELSE DOWN_ARROW
    IN  [t EXCEPT !.Header = [favHeader EXCEPT
                                 ![idx + 1] = WithArrow(favHeader[idx + 1], arrow)],
                  !.Rows   = SortData(t.Rows, idx, SortAsc(key))]

\* else { ShowCursor = true; switch e.ID {...}; Render(Grid); previousKey }
PrimaryKey(key, drawn) ==
    LET shown    == [myPage.FavouritesTable EXCEPT !.ShowCursor = TRUE]
        scrolled == Scroll(shown, key, previousKey)
    IN  /\ IF key \in SortKeys
           THEN /\ favSortIdx' = SortIdx(key)
                /\ favSortAsc' = SortAsc(key)
                /\ myPage' = [myPage EXCEPT
                                 !.FavouritesTable = SortedTable(shown, key)]
           ELSE /\ myPage' = [myPage EXCEPT !.FavouritesTable = scrolled]
                /\ UNCHANGED <<favSortIdx, favSortAsc>>
        /\ rendered' = drawn \o <<"Grid">>
        /\ previousKey' = IF previousKey = "g" THEN "" ELSE key
        /\ UNCHANGED <<selectCurrency, currency, currencyVal, currencyWidget>>

\* case e := <-uiEvents, for a key that does not return
HandleKey(key) ==
    LET overlay == selectCurrency \/ key \in {"c", "C"}
        cw      == [currencyWidget EXCEPT
                       !.Rows = IF key = "c" THEN PopularRows
                                ELSE IF key = "C" THEN AllRows ELSE @]
        drawn   == IF key \in {"<Resize>", "c", "C"}
                   THEN updateUI(overlay) ELSE <<>>
    IN  IF overlay THEN OverlayKey(key, cw, drawn) ELSE PrimaryKey(key, drawn)

UIEvent ==
    /\ Applied("uiEvents")
    /\ \E key \in Keys :
          /\ received' = [key |-> key]
          /\ IF Quits(key)
             THEN /\ result' = QuitError(key)
                  /\ rendered' = <<>>
                  /\ UNCHANGED <<selectCurrency, currency, currencyVal,
                                 previousKey, currencyWidget, favSortIdx,
                                 favSortAsc, myPage>>
             ELSE /\ HandleKey(key)
                  /\ UNCHANGED result
    /\ again' = (received' = received)

\* a price label that is not scaled by the conversion factor
PriceBoxAfterUnscaled(data) ==
    [myPage.PriceBox EXCEPT !.Price = Label(data.val, 1, currency)]

\* case data := <-priceChannel
PriceBoxAfter(data) ==
    [myPage.PriceBox EXCEPT !.Price = Label(data.val, currencyVal, currency)]

PriceUpdate ==
    /\ Applied("priceChannel")
    /\ \E data \in PriceUpdates :
          /\ received' = [price |-> data]
          /\ myPage' = [myPage EXCEPT !.PriceBox = PriceBoxAfter(data)]
    /\ rendered' = IF selectCurrency THEN <<>> ELSE <<"PriceBox">>
    /\ again' = (received' = received)
    /\ UNCHANGED <<result, selectCurrency, currency, currencyVal,
                   previousKey, currencyWidget, favSortIdx, favSortAsc>>

\* case "FAVOURITES": one row per entry, in the order range visits them
FavouritesRows(favourites, order) ==
    [k \in DOMAIN order |->
        <<order[k], Quot(favourites[order[k]], currencyVal)>>]

ApplyFavourites(page, favourites, order) ==
    [page EXCEPT
        !.FavouritesTable.Header[2] = PriceHeader(currency),
        !.FavouritesTable.Rows = FavouritesRows(favourites, order)]

\* case "HISTORY"
ApplyHistory(page, data) ==
    [page EXCEPT
        !.ValueGraph.Data = data.PriceHistory,
        !.ValueGraph.Max =
            Label(MaxFloat64(data.PriceHistory), currencyVal, currency),
        !.ValueGraph.Min =
            Label(MinFloat64(data.PriceHistory), currencyVal, currency)]

\* a gauge update without the check of the percentage's range
GaugeAfterNoRangeCheck(old, a) ==
    IF a.VolumeUsd24Hr.ok /\ a.MarketCapUsd.val > 0
    THEN Percent(a.VolumeUsd24Hr.val, a.MarketCapUsd.val)
    ELSE old

\* the volume gauge after a Detail result; mCap is 0 when the market cap
\* does not parse
GaugeAfter(old, a) ==
    IF a.VolumeUsd24Hr.ok /\ a.MarketCapUsd.val > 0
    THEN LET percent == Percent(a.VolumeUsd24Hr.val, a.MarketCapUsd.val)
         IN  IF percent <= 100 /\ percent >= 0 THEN percent ELSE old
    ELSE old

\* a Detail handler that appends the new rows to the details table
ApplyAssetAppends(page, a) ==
    LET mCap    == a.MarketCapUsd
        unit    == RoundValues(mCap.val, 0)
        mCapStr == IF mCap.ok
                   THEN [value |-> Quot(mCap.val, unit.div * currencyVal),
                         units |-> unit.units, currency |-> currency]
                   ELSE NoLabel
        vwapStr == IF a.Vwap24Hr.ok
                   THEN Label(a.Vwap24Hr.val, currencyVal, currency)
                   ELSE NoLabel
        supply  == RoundValues(a.Supply.val, a.MaxSupply.val)
        c       == a.ChangePercent24Hr
    IN  [page EXCEPT
            !.DetailsTable.Header = <<"Name", a.Name>>,
            !.DetailsTable.Rows =
                @ \o << <<"Symbol", a.Symbol>>, <<"Rank", a.Rank>>,
                        <<"Market Cap", mCapStr>>, <<"VWAP 24Hr", vwapStr>>,
                        <<"Explorer", a.Explorer>> >>,
            !.ValueGraph.Value =
                IF a.PriceUsd.ok
                THEN Label(a.PriceUsd.val, currencyVal, currency) ELSE @,
            !.VolumeGauge.Percent = GaugeAfter(@, a),
            !.SupplyChart.Data =
                IF a.Supply.ok /\ a.MaxSupply.ok
                THEN <<Quot(a.Supply.val, supply.div),
                       Quot(a.MaxSupply.val, supply.div)>>
                ELSE @,
            !.SupplyChart.Title =
                IF a.Supply.ok /\ a.MaxSupply.ok THEN supply.units ELSE @,
            !.PriceBox.Change =
                IF ~c.ok THEN "NA"
                ELSE IF c.val < 0 THEN <<DOWN_ARROW, -1 * c.val>>
                ELSE <<UP_ARROW, c.val>>]

\* case "ASSET"
ApplyAsset(page, a) ==
    LET mCap    == a.MarketCapUsd
        unit    == RoundValues(mCap.val, 0)
        mCapStr == IF mCap.ok
                   THEN [value |-> Quot(mCap.val, unit.div * currencyVal),
                         units |-> unit.units, currency |-> currency]
                   ELSE NoLabel
        vwapStr == IF a.Vwap24Hr.ok
                   THEN Label(a.Vwap24Hr.val, currencyVal, currency)
                   ELSE NoLabel
        supply  == RoundValues(a.Supply.val, a.MaxSupply.val)
        c       == a.ChangePercent24Hr
    IN  [page EXCEPT
            !.DetailsTable.Header = <<"Name", a.Name>>,
            !.DetailsTable.Rows =
                << <<"Symbol", a.Symbol>>, <<"Rank", a.Rank>>,
                   <<"Market Cap", mCapStr>>, <<"VWAP 24Hr", vwapStr>>,
                   <<"Explorer", a.Explorer>> >>,
            !.ValueGraph.Value =
                IF a.PriceUsd.ok
                THEN Label(a.PriceUsd.val, currencyVal, currency) ELSE @,
            !.VolumeGauge.Percent = GaugeAfter(@, a),
            !.SupplyChart.Data =
                IF a.Supply.ok /\ a.MaxSupply.ok
                THEN <<Quot(a.Supply.val, supply.div),
                       Quot(a.MaxSupply.val, supply.div)>>
                ELSE @,
            !.SupplyChart.Title =
                IF a.Supply.ok /\ a.MaxSupply.ok THEN supply.units ELSE @,
            !.PriceBox.Change =
                IF ~c.ok THEN "NA"
                ELSE IF c.val < 0 THEN <<DOWN_ARROW, -1 * c.val>>
                ELSE <<UP_ARROW, c.val>>]

\* statements after the switch that sort by symbol whatever the user chose
ResortBySymbol(page) ==
    [page EXCEPT !.FavouritesTable.Rows = SortData(@, 0, TRUE)]

\* the statements after the switch on data.Type: the favourites rows are
\* sorted again and the header of the sort column gets its arrow
Resort(page) ==
    IF favSortIdx # -1
    THEN [page EXCEPT
            !.FavouritesTable.Rows = SortData(@, favSortIdx, favSortAsc),
            !.FavouritesTable.Header[favSortIdx + 1] =
                WithArrow(favHeader[favSortIdx + 1],
                          IF favSortAsc THEN UP_ARROW ELSE DOWN_ARROW)]
    ELSE [page EXCEPT !.FavouritesTable.Rows = SortData(@, 0, TRUE)]

\* case data := <-dataChannel
DataResult ==
    /\ Applied("dataChannel")
    /\ \/ \E favourites \in Snapshots : \E order \in RangeOrders(favourites) :
             /\ received' = [Type |-> "FAVOURITES", Favourites |-> favourites]
             /\ myPage' = Resort(ApplyFavourites(myPage, favourites, order))
       \/ \E data \in Histories :
             /\ received' = data
             /\ myPage' = Resort(ApplyHistory(myPage, data))
       \/ \E a \in Assets :
             /\ received' = [Type |-> "ASSET", CoinAssetData |-> a]
             /\ myPage' = Resort(ApplyAsset(myPage, a))
    /\ rendered' = <<>>
    /\ again' = (received' = received)
    /\ UNCHANGED <<result, selectCurrency, currency, currencyVal,
                   previousKey, currencyWidget, favSortIdx, favSortAsc>>

\* case <-tick: updateUI()
RefreshTick ==
    /\ Applied("tick")
    /\ received' = [tick |-> TRUE]
    /\ again' = (received' = received)
    /\ rendered' = updateUI(selectCurrency)
    /\ UNCHANGED <<result, selectCurrency, currency, currencyVal,
                   previousKey, currencyWidget, favSortIdx, favSortAsc,
                   myPage>>

\* the owner of the view cancels DisplayCoin's context
CancelDisplay ==
    /\ ~ctxDone
    /\ ctxDone' = TRUE
    /\ UNCHANGED <<eventsReady, result, iters, afterCancel, lastCase,
                   received, again, rendered,
                   selectCurrency, currency, currencyVal, previousKey,
                   currencyWidget, favSortIdx, favSortAsc, myPage, avars,
                   nonDisplayVars>>

\* an event becomes ready on one of the four channels
EventsArrive ==
    /\ ~eventsReady
    /\ eventsReady' = TRUE
    /\ UNCHANGED <<ctxDone, result, iters, afterCancel, lastCase,
                   received, again, rendered,
                   selectCurrency, currency, currencyVal, previousKey,
                   currencyWidget, favSortIdx, favSortAsc, myPage, avars,
                   nonDisplayVars>>

\* no event is ready any more on any of them
EventsDrained ==
    /\ eventsReady
    /\ eventsReady' = FALSE
    /\ UNCHANGED <<ctxDone, result, iters, afterCancel, lastCase,
                   received, again, rendered,
                   selectCurrency, currency, currencyVal, previousKey,
                   currencyWidget, favSortIdx, favSortAsc, myPage, avars,
                   nonDisplayVars>>

InitDisplay ==
    /\ adapter = "GetCoinAsset"
    /\ AdaptersNotStarted
    /\ series = <<>>
    /\ coinData = NoCoinData
    /\ response = <<>>
    /\ snapshot = NoCoinData
    /\ InitDisplayState

NextDisplay ==
    \/ CancelDisplay
    \/ EventsArrive
    \/ EventsDrained
    \/ CtxDoneCase
    \/ UIEvent
    \/ PriceUpdate
    \/ DataResult
    \/ RefreshTick

SpecDisplay == InitDisplay /\ [][NextDisplay]_vars

\* DisplayCoin after its first two events, the keys c and j: the overlay
\* is active and shows the popular currencies, the second one selected;
\* iters counts the iterations from here
InitOverlay ==
    /\ adapter = "GetCoinAsset"
    /\ AdaptersNotStarted
    /\ series = <<>>
    /\ coinData = NoCoinData
    /\ response = <<>>
    /\ snapshot = NoCoinData
    /\ ctxDone = FALSE
    /\ eventsReady = FALSE
    /\ result = "running"
    /\ iters = 0
    /\ afterCancel = 0
    /\ lastCase = "uiEvents"
    /\ received = [key |-> "j"]
    /\ again = FALSE
    /\ rendered = <<"currencyWidget">>
    /\ selectCurrency = TRUE
    /\ currency = "USD $"
    /\ currencyVal = 1
    /\ previousKey = ""
    /\ currencyWidget = ScrollDown([NewCurrencyPage EXCEPT !.Rows = PopularRows])
    /\ favSortIdx = -1
    /\ favSortAsc = FALSE
    /\ myPage = NewCoinPage

SpecOverlay == InitOverlay /\ [][NextDisplay]_vars

----------------------------------------------------------------------------
(* Properties of the adapters *)

\* C1: once a callback has reported a fatal error on errChan, LoopTick has
\* returned exactly that error (the callback's finalErr) and the callback
\* is never invoked again.
C1_FatalErrorStopsScheduler ==
    /\ [](reported # "nil" =>
            sched = "done" /\ ret = reported /\ ret = finalErr)
    /\ [][reported # "nil" => cycles' = cycles /\ reported' = reported]_vars

\* a request error was reported while the ticker had ticks left to deliver
C1_Witness ==
    /\ reported \in RequestErrors \cup {"read failed"}
    /\ ~cancelled
    /\ ticks < MaxTicks
    /\ pc = "idle"

\* C2 as stated: no send on the data (price) channel completes after the
\* cancellation signal has fired.
C2_NoSendAfterCancel == sendsAfterCancel = 0

\* C2 amended: a callback invocation completes at most one send, and an
\* invocation that has taken the ctx.Done() case of its select completes
\* none; the invocation at its send when the cancellation signal fires may
\* still complete it, when the consumer is ready to receive.
C2_NoSendOnceDoneCaseTaken ==
    /\ [](sends <= cycles)
    /\ [][finalErr' = Canceled => sends' = sends]_vars

\* the invocation in flight completed its send after the cancellation
C2_Witness == cancelled /\ sendsAfterCancel = 1 /\ pc = "idle"

\* C3: after the cancellation signal has fired, no adapter task is blocked
\* on a channel send: a running callback can always take its next step,
\* whoever is still receiving.
C3_NoSendBlockedAfterCancel ==
    (cancelled /\ active > 0) => ENABLED CallbackStep

\* C4: at most one invocation of the callback executes at any time, and a
\* tick that fires while an invocation is executing starts no invocation
\* and leaves the executing one alone.
C4_OneInvocationAtATime ==
    /\ [](active <= 1)
    /\ [][ticks' # ticks /\ active = 1 =>
            cycles' = cycles /\ active' = 1 /\ pc' = pc]_vars

\* a tick was skipped while the invocation waits in its send
C4_Witness == ticks > cycles /\ active = 1 /\ pc = "send"

\* C5: when "7 days" and then "30 days" were submitted and neither was
\* consumed before the cycle started, the cycle's request uses "30 days".
C5_NewestIntervalWins ==
    (/\ adapter = "GetCoinHistory"
     /\ cycles > 0
     /\ pendingAtTick = <<"7 days", "30 days">>
     /\ urls[cycles] # "none")
        => urls[cycles] = "30 days"

\* C8: in GetLivePrice, an invocation whose read returned an error or
\* panicked has reported a fatal error to LoopTick by the time it returns.
C8_ReadFaultIsReported ==
    (adapter = "GetLivePrice" /\ faulted /\ pc = "idle") => reported # "nil"

----------------------------------------------------------------------------
(* Properties of the aggregations *)

SeriesIsMin(v) ==
    /\ \E k \in 1..Len(series) : series[k] = v
    /\ \A k \in 1..Len(series) : v <= series[k]

SeriesIsMax(v) ==
    /\ \E k \in 1..Len(series) : series[k] = v
    /\ \A k \in 1..Len(series) : v >= series[k]

SameShape ==
    /\ Len(coinData.PriceHistory) = Len(series)
    /\ SeriesIsMin(coinData.MinPrice)
    /\ SeriesIsMax(coinData.MaxPrice)
    /\ \A k \in 1..Len(series) : coinData.PriceHistory[k] >= 0
    /\ \A j, k \in 1..Len(series) :
          series[j] <= series[k] =>
             coinData.PriceHistory[j] <= coinData.PriceHistory[k]

\* C6 as stated: the emitted History has the length and order of S, carries
\* min(S) and max(S), has no negative sample, and adding MinPrice to a
\* sample gives back the sample of S.
C6_ExactReconstruction ==
    coinData.Type = "HISTORY" =>
        /\ SameShape
        /\ \A k \in 1..Len(series) :
              FAdd(coinData.PriceHistory[k], coinData.MinPrice) = series[k]

\* C6 amended: length, order, MinPrice, MaxPrice and non-negativity as
\* stated; a sample equal to min(S) is transported as 0; adding MinPrice to
\* a sample gives back the sample of S exactly when it is at most twice
\* MinPrice, and to within one unit in its last place otherwise.
C6_ReconstructionUpToRounding ==
    coinData.Type = "HISTORY" =>
        /\ SameShape
        /\ \A k \in 1..Len(series) :
              LET back == FAdd(coinData.PriceHistory[k], coinData.MinPrice)
              IN  /\ series[k] = coinData.MinPrice =>
                        coinData.PriceHistory[k] = 0
                  /\ series[k] <= 2 * coinData.MinPrice => back = series[k]
                  /\ back - series[k] <= Ulp(series[k])
                  /\ series[k] - back <= Ulp(series[k])

\* a series with a positive minimum whose other sample loses its last bit
\* in the subtraction
C6_Witness ==
    /\ coinData.Type = "HISTORY"
    /\ Len(series) = 2
    /\ coinData.MinPrice > 0
    /\ \E k \in 1..2 :
          FAdd(coinData.PriceHistory[k], coinData.MinPrice) # series[k]

\* the last entry of the response with the symbol sym, upper-cased
LastWith(sym) ==
    CHOOSE k \in 1..Len(response) :
        /\ ToUpper(response[k].Symbol) = sym
        /\ \A j \in (k + 1)..Len(response) : ToUpper(response[j].Symbol) # sym

\* C7: the Snapshot has exactly one entry per distinct upper-cased symbol
\* of the response, and its value is the price of the last entry with that
\* symbol in response order.
C7_LastWriteWins ==
    snapshot.Type = "FAVOURITES" =>
        /\ DOMAIN snapshot.Favourites =
              {ToUpper(response[k].Symbol) : k \in 1..Len(response)}
        /\ \A sym \in DOMAIN snapshot.Favourites :
              snapshot.Favourites[sym] = response[LastWith(sym)].CurrentPrice

\* a response where two entries differ in the case of their symbol and in
\* their price
C7_Witness ==
    /\ snapshot.Type = "FAVOURITES"
    /\ \E j, k \in 1..Len(response) :
          /\ j < k
          /\ response[j].Symbol # response[k].Symbol
          /\ ToUpper(response[j].Symbol) = ToUpper(response[k].Symbol)
          /\ response[j].CurrentPrice # response[k].CurrentPrice

----------------------------------------------------------------------------
(* Properties of DisplayCoin *)

\* C9 as stated: DisplayCoin returns only the cancellation's reason, on
\* cancellation, or the user-close error of q and <C-c>.
C9_ReturnsOnCancelOrQuitOnly ==
    result \in {"running", Canceled, "coin UI Closed"}

\* C9 amended: DisplayCoin returns once, and only in three cases: the
\* cancellation's reason from the ctx.Done() case after cancellation; "coin
\* UI Closed" from a key event (q, <C-c>) in any mode; "UI Closed" from a
\* key event (<Escape>) while the overlay is not active.  No data-channel
\* result and no price update makes it return, nor a timer tick.
C9_ReturnsInThreeCases ==
    [][result' # result =>
          /\ result = "running"
          /\ \/ result' = Canceled /\ ctxDone /\ lastCase' = "ctx.Done"
             \/ result' = "coin UI Closed" /\ lastCase' = "uiEvents"
             \/ /\ result' = "UI Closed"
                /\ lastCase' = "uiEvents"
                /\ ~selectCurrency]_vars

\* a Detail result whose market cap does not parse was applied and the
\* loop is still running
C9_Witness ==
    /\ result = "running"
    /\ lastCase = "dataChannel"
    /\ myPage.DetailsTable.Rows # <<>>
    /\ myPage.DetailsTable.Rows[3] = <<"Market Cap", NoLabel>>

\* C10 as stated: no event is applied once the cancellation signal has
\* fired.
C10_NothingAppliedAfterCancel == afterCancel = 0

\* C10 amended: once the cancellation signal has fired, an iteration that
\* starts while no other channel has an event ready returns the
\* cancellation's reason; while events are ready an iteration may still
\* apply one; after DisplayCoin has returned nothing is applied any more.
C10_ExitsWhenDoneCaseTaken ==
    /\ [][(ctxDone /\ ~eventsReady /\ iters' # iters) =>
             result' = Canceled]_vars
    /\ [][result # "running" =>
             UNCHANGED <<result, iters, afterCancel, myPage, currency,
                         currencyVal, selectCurrency>>]_vars

\* an event was applied after the cancellation, then DisplayCoin returned
\* the cancellation's reason
C10_Witness == ctxDone /\ afterCancel > 0 /\ result = Canceled

\* C11 as stated: every iteration that handles an event and keeps the loop
\* running triggers exactly one redraw.
C11_ExactlyOneRedraw ==
    (result = "running" /\ lastCase \in {"tick", "uiEvents", "dataChannel", "priceChannel"})
        => Len(rendered) = 1

\* every redraw of the sequence draws the widget w
Only(draws, w) == \A k \in 1..Len(draws) : draws[k] = w

\* C11 amended: an iteration that keeps the loop running triggers at most
\* two redraws.  A timer iteration triggers exactly one, of the overlay
\* when it is active and of the primary view otherwise.  A data-channel
\* result triggers none.  A price update triggers one, of the price box,
\* when the overlay is not active, and none when it is.  A key event
\* redraws only the view that is active after it: once or twice when the
\* overlay stays active, twice when the key opens the overlay, not at all
\* when the key closes it, and once or twice in the primary view.
C11_RedrawsPerEvent ==
    [][(iters' # iters /\ result' = "running") =>
          CASE lastCase' = "tick" ->
                 rendered' = IF selectCurrency THEN <<"currencyWidget">>
                             ELSE <<"Grid">>
            [] lastCase' = "dataChannel" -> rendered' = <<>>
            [] lastCase' = "priceChannel" ->
                 rendered' = IF selectCurrency THEN <<>> ELSE <<"PriceBox">>
            [] lastCase' = "uiEvents" ->
                 /\ Len(rendered') <= 2
                 /\ selectCurrency' =>
                       /\ Only(rendered', "currencyWidget")
                       /\ Len(rendered') >= (IF selectCurrency THEN 1 ELSE 2)
                 /\ (selectCurrency /\ ~selectCurrency') => rendered' = <<>>
                 /\ (~selectCurrency /\ ~selectCurrency') =>
                       Only(rendered', "Grid") /\ Len(rendered') >= 1
            [] OTHER -> FALSE]_vars

\* a timer iteration with the overlay active drew the overlay, once
C11_Witness ==
    /\ result = "running"
    /\ lastCase = "tick"
    /\ selectCurrency
    /\ rendered = <<"currencyWidget">>

\* the step commits, with <Enter>, the row the overlay has selected
\* (<Enter> and <Escape> are the keys that close the overlay; <Escape>
\* changes neither the label nor the factor)
CommitsSelectedRow ==
    /\ iters' # iters
    /\ lastCase' = "uiEvents"
    /\ selectCurrency
    /\ ~selectCurrency'
    /\ currencyWidget.SelectedRow < Len(currencyWidget.Rows)

SelectedRate == currencyWidget.Rows[currencyWidget.SelectedRow + 1].rate

\* C12: committing a currency whose conversion rate does not parse keeps
\* the conversion factor and the currency label as they were, and the
\* conversion factor is never zero.
C12_MalformedRateKeepsPrevious ==
    /\ [](currencyVal # 0)
    /\ [][(CommitsSelectedRow /\ ~SelectedRate.ok) =>
             currencyVal' = currencyVal /\ currency' = currency]_vars

\* the fields of the page a Detail result derives
DetailFields(page) ==
    [rows    |-> page.DetailsTable.Rows,
     value   |-> page.ValueGraph.Value,
     percent |-> page.VolumeGauge.Percent,
     supply  |-> page.SupplyChart.Data,
     title   |-> page.SupplyChart.Title,
     change  |-> page.PriceBox.Change]

\* C13: when an iteration applies the Detail result the iteration before
\* it applied (the active currency cannot change in between), the details
\* rows, the value label, the gauge percentage, the supply chart's data and
\* title and the change indicator are after it what they were before it.
C13_DetailIdempotent ==
    [][(/\ iters' # iters
        /\ lastCase' = "dataChannel"
        /\ received'.Type = "ASSET"
        /\ again')
          => DetailFields(myPage') = DetailFields(myPage)]_vars

\* the same Detail, with a volume of half the market cap, was applied
\* twice in a row after the second currency was committed
C13_Witness ==
    /\ lastCase = "dataChannel"
    /\ received.Type = "ASSET"
    /\ again
    /\ currencyVal = 2
    /\ received.CoinAssetData.VolumeUsd24Hr = Num(500)
    /\ received.CoinAssetData.MarketCapUsd = Num(1000)
    /\ myPage.VolumeGauge.Percent = 50

\* the latest key event received the key g
PressedG(case, event) == case = "uiEvents" /\ event = [key |-> "g"]

\* C14: a g received right after another g leaves the active table (the
\* currency table while the overlay is active, the favourites table
\* otherwise) at its top; a g received right after a key other than g does
\* not move the active table's selection.
C14_DoubleGJumpsToTop ==
    [][(iters' # iters /\ PressedG(lastCase', received') /\ lastCase = "uiEvents")
          => IF received = [key |-> "g"]
             THEN IF selectCurrency
                  THEN currencyWidget'.SelectedRow = 0
                  ELSE myPage'.FavouritesTable.SelectedRow = 0
             ELSE IF selectCurrency
                  THEN currencyWidget'.SelectedRow = currencyWidget.SelectedRow
                  ELSE myPage'.FavouritesTable.SelectedRow =
                          myPage.FavouritesTable.SelectedRow]_vars

\* C15: an iteration that receives a price update sets the price label to
\* the received price (0 when the string does not parse) divided by the
\* active conversion factor, with the active currency's label, and changes
\* nothing else: not the favourites table, the chart, the details, the
\* gauge, the supply chart or the change indicator, nor the sort state, the
\* overlay mode, the currency selection or the loop's result.
C15_PriceUpdateChangesLabelOnly ==
    [][(iters' # iters /\ lastCase' = "priceChannel") =>
          /\ myPage'.PriceBox.Price =
                Label(received'.price.val, currencyVal, currency)
          /\ myPage' = [myPage EXCEPT
                           !.PriceBox.Price = myPage'.PriceBox.Price]
          /\ UNCHANGED <<selectCurrency, currency, currencyVal, currencyWidget,
                         favSortIdx, favSortAsc, previousKey, result>>]_vars

\* a price of 4 was received after the second currency, of factor 2, was
\* committed and a Detail result had filled the page
C15_Witness ==
    /\ lastCase = "priceChannel"
    /\ received = [price |-> Num(4)]
    /\ currencyVal = 2
    /\ myPage.PriceBox.Price = [value |-> [hundredths |-> 200],
                                currency |-> "EUR E"]
    /\ myPage.DetailsTable.Rows # <<>>

\* the rows are in the order of column idx, ascending or descending: no
\* row comes after a row it sorts strictly before
Ordered(rows, idx, asc) ==
    \A j, k \in 1..Len(rows) : j < k => ~Before(idx, asc, rows[k], rows[j])

\* C16: after an iteration has applied a Snapshot result, the favourites
\* table has one row per symbol of the Snapshot, with the symbol's price
\* scaled by the conversion factor, and the rows are in the order of the
\* sort column and direction the user selected last, or ascending by
\* symbol when the user selected none.
C16_SnapshotRowsSorted ==
    [][(iters' # iters /\ lastCase' = "dataChannel"
        /\ received'.Type = "FAVOURITES") =>
          LET rows == myPage'.FavouritesTable.Rows
              fav  == received'.Favourites
          IN  /\ Len(rows) = Cardinality(DOMAIN fav)
              /\ \A sym \in DOMAIN fav : \E k \in 1..Len(rows) :
                    rows[k] = <<sym, Quot(fav[sym], currencyVal)>>
              /\ IF favSortIdx = -1
                 THEN Ordered(rows, 0, TRUE)
                 ELSE Ordered(rows, favSortIdx, favSortAsc)
              /\ UNCHANGED <<favSortIdx, favSortAsc>>]_vars

\* a Snapshot with two prices was applied while the price column was
\* sorted descending, and the rows are not in the order of their symbols
C16_Witness ==
    /\ lastCase = "dataChannel"
    /\ received.Type = "FAVOURITES"
    /\ favSortIdx = 1
    /\ ~favSortAsc
    /\ Len(myPage.FavouritesTable.Rows) = 2
    /\ myPage.FavouritesTable.Rows[1] = <<"ETH", [hundredths |-> 400]>>
    /\ myPage.FavouritesTable.Rows[2] = <<"BTC", [hundredths |-> 200]>>

\* the whole part of 100 * v / m
ExactPercent(v, m) == (100 * v) \div m

\* C17 as stated: a Detail result with a parseable volume v and market cap
\* m sets the gauge to the whole part of 100 * v / m, clamped to [0, 100],
\* when m > 0 (50 for v = 500 and m = 1000), and leaves the gauge as it is
\* when m = 0.
C17_GaugeClamped ==
    [][(iters' # iters /\ lastCase' = "dataChannel"
        /\ received'.Type = "ASSET"
        /\ received'.CoinAssetData.VolumeUsd24Hr.ok
        /\ received'.CoinAssetData.MarketCapUsd.ok) =>
          LET v == received'.CoinAssetData.VolumeUsd24Hr.val
              m == received'.CoinAssetData.MarketCapUsd.val
          IN  myPage'.VolumeGauge.Percent =
                 IF m = 0 THEN myPage.VolumeGauge.Percent
                 ELSE IF ExactPercent(v, m) > 100 THEN 100
                 ELSE ExactPercent(v, m)]_vars

\* C17 amended: with a parseable volume v and a parseable market cap
\* m > 0, the gauge is set to the whole part of the floating-point value
\* of (v / m) * 100 when that lies in [0, 100], and is left as it is
\* otherwise: it is not clamped.  The value set is the whole part of
\* 100 * v / m or, when the rounding of the quotient or of the product
\* crosses a whole number, the whole number next to it; v = 500 and
\* m = 1000 give 50.  When m = 0, or when the volume or the market cap
\* does not parse, the gauge keeps its value.  The gauge, which starts at
\* 0, stays in [0, 100].
C17_GaugeSetInRangeOnly ==
    [][(iters' # iters /\ lastCase' = "dataChannel"
        /\ received'.Type = "ASSET") =>
          LET a     == received'.CoinAssetData
              v     == a.VolumeUsd24Hr.val
              m     == a.MarketCapUsd.val
              old   == myPage.VolumeGauge.Percent
              new   == myPage'.VolumeGauge.Percent
              near  == new - ExactPercent(v, m) \in {-1, 0, 1}
          IN  /\ old \in 0..100 => new \in 0..100
              /\ IF ~a.VolumeUsd24Hr.ok \/ ~a.MarketCapUsd.ok \/ m = 0
                 THEN new = old
                 ELSE /\ ExactPercent(v, m) \in 1..99 => near
                      /\ ExactPercent(v, m) >= 102 => new = old
                      /\ near \/ new = old
                      /\ (v = 500 /\ m = 1000) => new = 50]_vars

\* after a volume of half the market cap had set the gauge to 50, a volume
\* of twice the market cap was applied, and the gauge is still at 50
C17_Witness ==
    /\ lastCase = "dataChannel"
    /\ received.Type = "ASSET"
    /\ received.CoinAssetData.VolumeUsd24Hr = Num(2000)
    /\ received.CoinAssetData.MarketCapUsd = Num(1000)
    /\ myPage.VolumeGauge.Percent = 50

\* C18: after an iteration has applied a History result, the chart's
\* series is the result's zeroed series, and the Max and Min labels show
\* the MaxPrice and MinPrice the result carries, each divided by the
\* conversion factor, with the active currency's label.
C18_LabelsShowCarriedMinMax ==
    [][(iters' # iters /\ lastCase' = "dataChannel"
        /\ received'.Type = "HISTORY") =>
          /\ myPage'.ValueGraph.Data = received'.PriceHistory
          /\ myPage'.ValueGraph.Max =
                Label(received'.MaxPrice, currencyVal, currency)
          /\ myPage'.ValueGraph.Min =
                Label(received'.MinPrice, currencyVal, currency)]_vars

\* C19: after an iteration has applied a Snapshot result, the header of
\* the favourites table's price column names the active currency, the one
\* the rows were scaled with, whichever column the table is sorted by.
C19_PriceHeaderNamesCurrency ==
    [][(iters' # iters /\ lastCase' = "dataChannel"
        /\ received'.Type = "FAVOURITES") =>
          myPage'.FavouritesTable.Header[2].text = PriceHeader(currency).text]_vars

\* C20: an iteration that starts or ends with the overlay active renders
\* nothing but the overlay, whatever event it handles; a key event handled
\* while the overlay is active leaves the whole page, the favourites
\* table's selection included, as it is, and no other event handled while
\* the overlay is active moves the favourites table's selection.
C20_OverlayHidesPrimaryView ==
    [][(iters' # iters /\ result' = "running") =>
          /\ (selectCurrency \/ selectCurrency') =>
                Only(rendered', "currencyWidget")
          /\ selectCurrency =>
                /\ lastCase' = "uiEvents" => myPage' = myPage
                /\ myPage'.FavouritesTable.SelectedRow =
                      myPage.FavouritesTable.SelectedRow]_vars

\* with the overlay active and the favourites table filled, a navigation
\* key moved the overlay's selection to its first row
C20_Witness ==
    /\ selectCurrency
    /\ lastCase = "uiEvents"
    /\ received = [key |-> "k"]
    /\ rendered = <<"currencyWidget">>
    /\ currencyWidget.SelectedRow = 0
    /\ Len(myPage.FavouritesTable.Rows) = 2
    /\ myPage.PriceBox.Price # NoLabel

\* C21: an iteration that receives <Escape> while the overlay is not
\* active returns the user-close error "UI Closed"; one that receives it
\* while the overlay is active closes the overlay, leaves the conversion
\* factor and the currency label as they are, and keeps the loop running.
C21_EscapeClosesOverlayFirst ==
    [][(iters' # iters /\ lastCase' = "uiEvents"
        /\ received' = [key |-> "<Escape>"]) =>
          IF selectCurrency
          THEN /\ result' = "running"
               /\ ~selectCurrency'
               /\ currencyVal' = currencyVal
               /\ currency' = currency
          ELSE result' = "UI Closed"]_vars

\* after the second currency was committed and the overlay was opened
\* again, <Escape> closed the overlay: the loop runs on with that currency
C21_Witness ==
    /\ lastCase = "uiEvents"
    /\ received = [key |-> "<Escape>"]
    /\ result = "running"
    /\ ~selectCurrency
    /\ currencyVal = 2
    /\ currency = "EUR E"

====
